---- MODULE Spec2Model ----
(***************************************************************************)
(* Style-learning and adaptive auto-reply engine of the WhatsApp bot.      *)
(*                                                                         *)
(*   - WhatsAppClient (src/bot/whatsapp_client.py): the inbound loop, the  *)
(*     one-shot test task, process_text_message, the command dispatcher    *)
(*     and the autoreply toggle;                                           *)
(*   - AutoReplyManager (src/bot/auto_reply.py): enable/disable, gating,   *)
(*     reply generation, delay;                                            *)
(*   - DatabaseManager / ChatStyleAnalyzer (src/database): the counters    *)
(*     and the confidence of the owning user's style record;               *)
(*   - PersonalityLearner (src/bot/personality_learner.py): the profile's  *)
(*     learning metadata and its save policy.                              *)
(*                                                                         *)
(* Times are in tenths of a second, probabilities and confidence scores    *)
(* in hundredths, so that 0.7 * delay, 0.3, 0.95 ... stay integers.        *)
(* A message is a sequence of tokens: a token is one punctuation           *)
(* character, one blank, or one lower-case word.                           *)
(***************************************************************************)
EXTENDS Integers, Sequences, FiniteSets, TLC

\* ------------------------------------------------------------------ bounds
\* messages the inbound loop handles in one run
MaxMsgs == 2
\* handler runs of one run in which an exception is raised
MaxFaults == 1
\* the clock stops advancing past this many seconds
MaxTime == 60
\* SpecProfile: messages one profile store analyses in one run
MaxAnalyzed == 201
\* SpecScenarioA: short messages the owning user sends in one run
MaxShortMsgs == 61
\* SpecSmoothing: updates of the communication style in one run
MaxSmoothUpdates == 3
\* SpecTemplates: messages the style store analyses in one run
MaxTemplateMsgs == 22
\* SpecBusy: messages of the one enabled user, and the seconds the run lasts
MaxBusyMsgs == 5
MaxBusyTime == 330
\* messages of the feed, and failures of the transport, in a run with a failing bridge
MaxSendMsgs == 2
MaxDrops == 1
\* SpecClassify: the tokens of the longest text classified
MaxClassifyTokens == 3

\* ------------------------------------------------------- program constants
DELAY_MIN == 5
DELAY_MAX == 15
DELAY_FLOOR == 2
DELAY_CEIL == 30
DEFAULT_AVG_INTERVAL == 30
FAST_INTERVAL == 10
SLOW_INTERVAL == 60
TIMING_WINDOW == 300
TIMING_CAP == 3
TIMING_KEEP == 50
HISTORY_KEEP == 100
HISTORY_WINDOW == 3600
TEST_MESSAGE_DELAY == 30
SKIP_CHANCE == 30
BASE_PROBABILITY == 60
QUESTION_BOOST == 30
LENGTH_BOOST == 20
EMOTION_BOOST == 25
ACTIVITY_PENALTY == 30
PROBABILITY_CEILING == 90
ERROR_PROBABILITY == 50
LONG_MESSAGE_WORDS == 10
BUSY_MESSAGE_COUNT == 5
LOW_BELOW == 10
MEDIUM_BELOW == 50
HIGH_BELOW == 200
LOW_CONFIDENCE == 20
MEDIUM_CONFIDENCE == 50
HIGH_CONFIDENCE == 80
TOP_CONFIDENCE == 95
SMOOTH_RETAIN == 8
SMOOTH_LEARN == 2
CAPS_RETAIN == 9
CAPS_LEARN == 1
SHORT_BELOW == 50
MEDIUM_LENGTH_BELOW == 150
MIN_LEARN_CHARS == 3
SAVE_THRESHOLD == 10
BUFFER_LIMIT == 50
FULL_CONFIDENCE_AT == 100
TEMPLATE_CAP == 10
STARTER_CAP == 20

Sec(n) == n * 10

Min(a, b) == IF a <= b THEN a ELSE b
Max(a, b) == IF a >= b THEN a ELSE b

\* ------------------------------------------------------------------- users
Owner == "owner@c.us"
TestUser == "test_user@c.us"
Users == {Owner, TestUser}
NoUser == "none"

\* ---------------------------------------------------------------- messages
BOT_PREFIX == "!"
RESERVED_PREFIXES == {"!", "/", "@"}
EMOTIONAL_WORDS == {"excited", "sad", "happy", "frustrated", "amazing", "terrible"}

\* 'Hello bot! This is a test message.'
TEST_MESSAGE == <<"hello", " ", "bot", "!", " ", "this", " ", "is", " ", "a", " ",
                  "test", " ", "message", ".">>

LongMessage == <<"so", " ", "i", " ", "was", " ", "out", " ", "and", " ", "saw", " ",
                 "the", " ", "new", " ", "shop", " ", "in", " ", "town">>

\* the texts the inbound feed delivers
Messages == {
    <<"!", "autoreply", " ", "on">>,
    <<"!", "autoreply", " ", "off">>,
    <<"!", "autoreply">>,
    <<"!", "help">>,
    <<" ", "!", "help">>,
    <<"/", "start">>,
    <<"@", "bot">>,
    <<"ok">>,
    <<"are", " ", "you", " ", "there", "?">>,
    <<"so", " ", "happy", " ", "today">>,
    <<" ">>,
    LongMessage,
    TEST_MESSAGE }

\* the texts the inbound feed delivers in a run
Feed == Messages \ {LongMessage, TEST_MESSAGE, <<"so", " ", "happy", " ", "today">>}

\* the character count of a token: a word counts its letters
TokenChars(tok) ==
    CASE tok \in {" ", "!", "/", "@", "?", "."} -> 1
      [] tok \in {"a", "i", ":grin:"} -> 1
      [] tok \in {"ok", "on", "so", "is", "in"} -> 2
      [] tok \in {"see", "you", "are", "was", "out", "and", "saw", "the", "new", "bot",
                  "off", "sad", "wow", "WOW"} -> 3
      [] tok \in {"help", "this", "test", "shop", "town", "stop", "cool"} -> 4
      [] tok \in {"there", "happy", "today", "hello", "start"} -> 5
      [] OTHER -> 7

RECURSIVE CharLen(_)
CharLen(m) == IF m = <<>> THEN 0 ELSE TokenChars(Head(m)) + CharLen(Tail(m))

RECURSIVE LStrip(_)
LStrip(m) == IF m # <<>> /\ Head(m) = " " THEN LStrip(Tail(m)) ELSE m

RECURSIVE RStrip(_)
RStrip(m) == IF m # <<>> /\ m[Len(m)] = " " THEN RStrip(SubSeq(m, 1, Len(m) - 1)) ELSE m

\* str.strip()
Strip(m) == RStrip(LStrip(m))

\* str.startswith(prefix) for a one-character prefix
StartsWith(m, tok) == m # <<>> /\ Head(m) = tok

StartsWithAny(m, toks) == \E tok \in toks : StartsWith(m, tok)

\* len(message.split()): the maximal runs of non-blank tokens
WordCount(m) ==
    Cardinality({i \in 1..Len(m) : m[i] # " " /\ (i = 1 \/ m[i - 1] = " ")})

\* 'x' in message, for a token x
Contains(m, tok) == \E i \in 1..Len(m) : m[i] = tok

ContainsAny(m, toks) == \E i \in 1..Len(m) : m[i] \in toks

\* message[1:].split(' ', 1): the command word and the rest
FirstBlank(m) ==
    IF Contains(m, " ") THEN CHOOSE i \in 1..Len(m) : m[i] = " " /\ \A j \in 1..(i - 1) : m[j] # " "
    ELSE 0
CommandWord(m) ==
    LET body == Tail(m)
        k == FirstBlank(body)
    IN IF k = 0 THEN body ELSE SubSeq(body, 1, k - 1)
CommandArgs(m) ==
    LET body == Tail(m)
        k == FirstBlank(body)
    IN IF k = 0 THEN <<>> ELSE SubSeq(body, k + 1, Len(body))

\* ------------------------------------------- PersonalityLearner: patterns
\* weights and ratios are fixed-point numbers, in millionths
UNIT == 1000 * 1000

UPPER_WORDS == {"WOW"}
EMOJI_KEYS == {":grin:"}
PHRASE_KEYS == {"wow", "cool"}
TONES == {"excited", "casual", "questioning", "emphatic", "positive", "negative",
          "technical", "humorous"}

\* str.lower() of a token
Lower(tok) == IF tok = "WOW" THEN "wow" ELSE tok

\* how many tokens of m satisfy Test
CountTokens(m, Test(_)) == Cardinality({i \in 1..Len(m) : Test(m[i])})

\* sum(1 for c in message if c.isupper())
UpperChars(m) ==
    LET F[i \in 0..Len(m)] ==
            IF i = 0 THEN 0
            ELSE F[i - 1] + (IF m[i] \in UPPER_WORDS THEN TokenChars(m[i]) ELSE 0)
    IN F[Len(m)]

\* caps_ratio: upper-case characters over len(message)
CapsRatio(m) == IF CharLen(m) = 0 THEN 0 ELSE (UpperChars(m) * UNIT) \div CharLen(m)

\* the maximal runs of two or more exclamation marks: [!]{2,}
ExclamationRuns(m) ==
    Cardinality({i \in 1..(Len(m) - 1) :
                    m[i] = "!" /\ m[i + 1] = "!" /\ (i = 1 \/ m[i - 1] # "!")})

\* _extract_phrases: common_expressions lists the pattern for wow twice, and the
\* matches of every pattern are added to the list that is counted
PatternRepeats(k) == IF k = "wow" THEN 2 ELSE 1
ExtractPhrases(m) ==
    [k \in PHRASE_KEYS |->
        PatternRepeats(k) * CountTokens(m, LAMBDA tok : Lower(tok) = k)]

\* _extract_emojis
ExtractEmojis(m) == [k \in EMOJI_KEYS |-> CountTokens(m, LAMBDA tok : tok = k)]

\* _analyze_tone, before the division by the word count
ToneCount(m, tone) ==
    CASE tone = "excited" ->
            ExclamationRuns(m)
            + CountTokens(m, LAMBDA tok :
                  Lower(tok) \in {"wow", "amazing", "awesome", "incredible"})
      [] tone = "casual" ->
            CountTokens(m, LAMBDA tok : Lower(tok) \in {"yeah", "okay", "cool", "alright"})
      [] tone = "questioning" -> CountTokens(m, LAMBDA tok : tok = "?")
      [] tone = "emphatic" -> CountTokens(m, LAMBDA tok : tok = "!")
      [] tone = "positive" ->
            CountTokens(m, LAMBDA tok :
                  Lower(tok) \in {"good", "great", "nice", "love", "like", "happy", "glad"})
      [] tone = "negative" ->
            CountTokens(m, LAMBDA tok :
                  Lower(tok) \in {"bad", "hate", "sad", "angry", "annoying", "terrible"})
      [] tone = "technical" ->
            CountTokens(m, LAMBDA tok :
                  Lower(tok) \in {"api", "code", "python", "javascript", "github",
                                  "programming"})
      [] OTHER ->
            CountTokens(m, LAMBDA tok :
                  Lower(tok) \in {"lol", "haha", "lmao", "funny", "joke", "meme"})

\* analyze_message_patterns: the patterns update_profile_with_patterns reads
AnalyzeMessagePatterns(m) ==
    [length |-> CharLen(m),
     word_count |-> WordCount(m),
     exclamation_count |-> CountTokens(m, LAMBDA tok : tok = "!"),
     caps_ratio |-> CapsRatio(m),
     emoji_usage |-> ExtractEmojis(m),
     common_phrases |-> ExtractPhrases(m),
     tone_counts |-> [tone \in TONES |-> ToneCount(m, tone)]]

NoPatterns == AnalyzeMessagePatterns(<<>>)

\* ------------------------------------------------------------------- state
VARIABLES
    now,               \* time.time(), tenths of a second since the connection
    enabled_users,     \* AutoReplyManager.enabled_users
    response_timing,   \* AutoReplyManager.response_timing: user -> timestamps
    message_history,   \* AutoReplyManager.message_history: user -> timestamps
    avg_interval,      \* user_patterns[user]['avg_message_interval'] as num/den
    task,              \* the two handler tasks: the inbound loop and the test task
    database_available,\* DatabaseManager.database_available
    user_total,        \* UserProfile.total_messages of each sender
    style,             \* the owning user's ChatStyleLearning row
    learner,           \* PersonalityLearner: profile metadata, counters, buffer
    env,               \* the run: who writes, messages and faults left, horizon
    last,              \* history: the message handled last and what became of it
    lastSend,          \* history: the autonomous reply delivered last
    lastAutoSend,      \* history: user -> time of the last autonomous reply
    ownerSeen          \* history: owning-user texts processed so far

vars == <<now, enabled_users, response_timing, message_history, avg_interval, task,
          database_available, user_total, style, learner, env, last, lastSend,
          lastAutoSend, ownerSeen>>

Tasks == {"loop", "test"}

\* the random draws, in hundredths: random.random() lies in [0, 1)
Draws == {0, 29, 30, 99}

\* where an exception is raised while one message is handled: <<stage, what>>
NoFault == <<"none", "none">>
Faults ==
    {NoFault}
    \cup ({"store1", "store2"} \X {"no_session", "stats", "late"})
    \cup {<<"answer", "raise">>}
    \cup ({"gate"} \X {"timing", "probability", "gating"})
    \cup ({"reply"} \X {"synthesis", "analysis"})
FaultAt(fault, stage) == IF fault[1] = stage THEN fault[2] ELSE "none"

IdleTask == [pc |-> "idle", sender |-> NoUser, msg |-> <<>>, fireAt |-> 0,
             acceptedAt |-> 0, cancelled |-> FALSE, superseded |-> FALSE,
             faulted |-> FALSE]

\* the task after its handler has returned
Returned(t) == IF t = "test" THEN [IdleTask EXCEPT !.pc = "done"] ELSE IdleTask

NoSend == [to |-> NoUser, cancelled |-> FALSE, superseded |-> FALSE,
           faulted |-> FALSE, enabled |-> FALSE, task |-> "none",
           delivered |-> FALSE, replies |-> 0]

NoLast == [sender |-> NoUser, kind |-> "none", gate |-> "none", reserved |-> FALSE,
           wasEnabled |-> FALSE, recent |-> 0, sinceSend |-> -1, fault |-> "none",
           obs |-> NoPatterns]

FreshStyle == [exists |-> FALSE, total_messages |-> 0, total_interactions_analyzed |-> 0,
               confidence_score |-> 0, greeting_templates |-> <<>>,
               question_response_templates |-> <<>>,
               supportive_response_templates |-> <<>>, humor_templates |-> <<>>,
               conversation_starters |-> <<>>]

\* GitHubProfileManager.create_default_profile: learning_metadata
DefaultProfile == [total_messages_analyzed |-> 0, confidence_score |-> 0,
                   pattern_reliability |-> "initializing"]

\* dict.get(key, 0) on a weight map: a key that is not in the map
NoWeight == -1

\* GitHubProfileManager.create_default_profile: communication_style and
\* conversation_context.mood_patterns
DefaultComm ==
    [common_phrases |-> [k \in PHRASE_KEYS |-> NoWeight],
     emoji_usage |-> [k \in EMOJI_KEYS |-> NoWeight],
     response_length_preference |-> "medium",
     caps_usage_frequency |-> UNIT \div 10,
     mood_patterns |-> [tone \in TONES |->
                          CASE tone = "excited" -> "enthusiastic_responses"
                            [] tone = "casual" -> "relaxed_tone"
                            [] OTHER -> "absent"]]

FreshLearner == [profile |-> DefaultProfile, interaction_count |-> 0, buffer |-> 0,
                 stored |-> DefaultProfile, comm |-> DefaultComm]

\* get_user_context: a mapping that does not hold 'recent_message_count'
UserContext == [key \in {} |-> 0]

\* a context that is no mapping: context.get raises
NoneContext == [is_none |-> TRUE]

\* the state after WhatsAppClient.__init__ and connect()
Constructed ==
    /\ now = 0
    /\ enabled_users = {}
    /\ response_timing = [u \in Users |-> <<>>]
    /\ message_history = [u \in Users |-> <<>>]
    /\ avg_interval = [u \in Users |-> [known |-> FALSE, num |-> 0, den |-> 1]]
    /\ task = [t \in Tasks |-> IF t = "test" THEN [IdleTask EXCEPT !.pc = "wait",
                                                                  !.fireAt = Sec(TEST_MESSAGE_DELAY)]
                               ELSE IdleTask]
    /\ user_total = [u \in Users |-> 0]
    /\ style = FreshStyle
    /\ learner = FreshLearner
    /\ last = NoLast
    /\ lastSend = NoSend
    /\ lastAutoSend = [u \in Users |-> -1]
    /\ ownerSeen = 0

Init ==
    /\ Constructed
    /\ database_available \in BOOLEAN
    /\ env = [mode |-> "client", senders |-> Users, msgs |-> MaxMsgs,
              faults |-> MaxFaults, drops |-> 0, horizon |-> Sec(MaxTime),
              context |-> UserContext, feed |-> Feed]

\* ------------------------------------------------------- AutoReplyManager
\* is_enabled
IsEnabled(u) == u \in enabled_users

\* the responses recorded for u in the last five minutes (_is_good_timing)
RecentResponses(u) ==
    Cardinality({i \in 1..Len(response_timing[u]) :
                    now - response_timing[u][i] < Sec(TIMING_WINDOW)})

\* _is_good_timing: an exception inside it is answered with True
IsGoodTiming(u, d, fault) ==
    IF fault = "timing" THEN TRUE
    ELSE IF RecentResponses(u) > TIMING_CAP THEN FALSE
    ELSE IF d < SKIP_CHANCE THEN FALSE
    ELSE TRUE

\* context.get('recent_message_count', 0)
RecentMessageCount(u) ==
    IF "recent_message_count" \in DOMAIN env.context
    THEN env.context["recent_message_count"] ELSE 0

\* _calculate_reply_probability without its cap
CalculateReplyProbability_Uncapped(u, m, fault) ==
    IF fault = "probability" THEN ERROR_PROBABILITY
    ELSE LET p1 == BASE_PROBABILITY + (IF Contains(m, "?") THEN QUESTION_BOOST ELSE 0)
             p2 == p1 + (IF WordCount(m) > LONG_MESSAGE_WORDS THEN LENGTH_BOOST ELSE 0)
             p3 == p2 + (IF ContainsAny(m, EMOTIONAL_WORDS) THEN EMOTION_BOOST ELSE 0)
         IN p3 - (IF RecentMessageCount(u) > BUSY_MESSAGE_COUNT THEN ACTIVITY_PENALTY ELSE 0)

\* _calculate_reply_probability capping at the base rate
CalculateReplyProbability_BaseCap(u, m, fault) ==
    IF fault = "probability" THEN ERROR_PROBABILITY
    ELSE LET p1 == BASE_PROBABILITY + (IF Contains(m, "?") THEN QUESTION_BOOST ELSE 0)
             p2 == p1 + (IF WordCount(m) > LONG_MESSAGE_WORDS THEN LENGTH_BOOST ELSE 0)
             p3 == p2 + (IF ContainsAny(m, EMOTIONAL_WORDS) THEN EMOTION_BOOST ELSE 0)
             p4 == p3 - (IF RecentMessageCount(u) > BUSY_MESSAGE_COUNT
                         THEN ACTIVITY_PENALTY ELSE 0)
         IN Min(p4, BASE_PROBABILITY)

\* _calculate_reply_probability: an exception inside it is answered with 0.5
CalculateReplyProbability(u, m, fault) ==
    IF fault = "probability" THEN ERROR_PROBABILITY
    ELSE LET p1 == BASE_PROBABILITY + (IF Contains(m, "?") THEN QUESTION_BOOST ELSE 0)
             p2 == p1 + (IF WordCount(m) > LONG_MESSAGE_WORDS THEN LENGTH_BOOST ELSE 0)
             p3 == p2 + (IF ContainsAny(m, EMOTIONAL_WORDS) THEN EMOTION_BOOST ELSE 0)
             p4 == p3 - (IF RecentMessageCount(u) > BUSY_MESSAGE_COUNT
                         THEN ACTIVITY_PENALTY ELSE 0)
         IN Min(p4, PROBABILITY_CEILING)

\* should_auto_reply testing the prefix on the text as received, not stripped
ShouldAutoReply_Unstripped(u, m, d1, d2, d3, fault) ==
    IF ~IsEnabled(u) THEN FALSE
    ELSE IF StartsWithAny(m, RESERVED_PREFIXES) THEN FALSE
    ELSE IF fault = "gating" THEN FALSE
    ELSE IF WordCount(m) < 2 /\ d1 < SKIP_CHANCE THEN FALSE
    ELSE IF ~IsGoodTiming(u, d2, fault) THEN FALSE
    ELSE d3 < CalculateReplyProbability(u, m, fault)

\* should_auto_reply, with its three random draws
ShouldAutoReply(u, m, d1, d2, d3, fault) ==
    IF ~IsEnabled(u) THEN FALSE
    ELSE IF StartsWithAny(Strip(m), RESERVED_PREFIXES) THEN FALSE
    ELSE IF fault = "gating" THEN FALSE
    ELSE IF WordCount(m) < 2 /\ d1 < SKIP_CHANCE THEN FALSE
    ELSE IF ~IsGoodTiming(u, d2, fault) THEN FALSE
    ELSE d3 < CalculateReplyProbability(u, m, fault)

\* _update_user_patterns: the history with this message, the last 100 kept
HistoryAfter(u) ==
    LET h == Append(message_history[u], now)
    IN IF Len(h) > HISTORY_KEEP THEN SubSeq(h, Len(h) - HISTORY_KEEP + 1, Len(h)) ELSE h

\* _update_user_patterns: the average interval between the messages of the last hour
AvgIntervalAfter(u) ==
    LET h == HistoryAfter(u)
        recent == SelectSeq(h, LAMBDA ts : now - ts < Sec(HISTORY_WINDOW))
    IN IF Len(recent) > 1
       THEN [known |-> TRUE, num |-> recent[Len(recent)] - recent[1],
             den |-> Len(recent) - 1]
       ELSE avg_interval[u]

\* generate_auto_reply records the time of the response, the last 50 kept
TimingAfter(u) ==
    LET r == Append(response_timing[u], now)
    IN IF Len(r) > TIMING_KEEP THEN SubSeq(r, Len(r) - TIMING_KEEP + 1, Len(r)) ELSE r

\* generate_auto_reply: "none" for None, else the kind of text it returns
GenerateAutoReply(u, fault) ==
    IF ~IsEnabled(u) THEN "none"
    ELSE IF fault = "analysis" THEN "none"
    ELSE IF fault = "synthesis" THEN "fallback"
    ELSE "template"

\* get_auto_reply_delay: base is the uniform draw from [min_delay, max_delay];
\* an exception inside it is answered with a second draw, returned as it is
GetAutoReplyDelay(base, redraw, avg, fault) ==
    LET fast == IF avg.known THEN avg.num < Sec(FAST_INTERVAL) * avg.den
                ELSE DEFAULT_AVG_INTERVAL < FAST_INTERVAL
        slow == IF avg.known THEN avg.num > Sec(SLOW_INTERVAL) * avg.den
                ELSE DEFAULT_AVG_INTERVAL > SLOW_INTERVAL
        scaled == IF fast THEN (base * 7) \div 10
                  ELSE IF slow THEN (base * 13) \div 10
                  ELSE base
    IN IF fault = "delay" THEN redraw
       ELSE Max(Sec(DELAY_FLOOR), Min(scaled, Sec(DELAY_CEIL)))

BaseDelays == {Sec(DELAY_MIN), Sec(DELAY_MAX)}

\* ------------------------------------------- DatabaseManager / style analyzer
\* update_user_stats: total_messages += 1, committed at once; an exception inside
\* is rolled back and swallowed
UserTotalAfter(ut, sender, fault) ==
    IF fault = "stats" THEN ut ELSE [ut EXCEPT ![sender] = @ + 1]

\* _learn_from_your_message: the confidence is total_messages / 100, at most 1.0
StyleConfidence(total) == Min((total * 100) \div FULL_CONFIDENCE_AT, 100)

\* 'needle' in message.lower(): the tokens of the vocabulary that contain the needle
Carriers(needle) ==
    CASE needle = "hi" -> {"hi", "this", "thing", "thinking"}
      [] needle = "think" -> {"think", "thinking"}
      [] OTHER -> {needle}
HasText(m, needles) ==
    \E i \in 1..Len(m) : \E needle \in needles : Lower(m[i]) \in Carriers(needle)

GREETING_WORDS == {"hello", "hi", "hey"}
QUESTION_WORDS == {"how", "what", "why", "when", "where"}
SUPPORTIVE_WORDS == {"thanks", "great", "awesome"}
HUMOR_WORDS == {":joy:", "lol", "haha", "funny"}

\* if message not in list and len(list) < cap: list.append(message)
AppendIfNovel_Unbounded(list, m, cap) ==
    IF \A i \in 1..Len(list) : list[i] # m THEN Append(list, m) ELSE list

\* a list that makes room at its cap by dropping its oldest text
AppendIfNovel_Evicting(list, m, cap) ==
    IF \E i \in 1..Len(list) : list[i] = m THEN list
    ELSE IF Len(list) < cap THEN Append(list, m)
    ELSE Append(Tail(list), m)

AppendIfNovel(list, m, cap) ==
    IF (\A i \in 1..Len(list) : list[i] # m) /\ Len(list) < cap
    THEN Append(list, m) ELSE list

\* _is_conversation_starter
IsConversationStarter(m) == HasText(m, {"hello", "hi", "hey"})

\* _update_response_templates, and the conversation starters kept by
\* _learn_from_your_message
UpdateResponseTemplates(st, m) ==
    [st EXCEPT
       !.conversation_starters =
           IF IsConversationStarter(m) THEN AppendIfNovel(@, m, STARTER_CAP) ELSE @,
       !.greeting_templates =
           IF HasText(m, GREETING_WORDS) THEN AppendIfNovel(@, m, TEMPLATE_CAP) ELSE @,
       !.question_response_templates =
           IF Contains(m, "?") /\ HasText(m, QUESTION_WORDS)
           THEN AppendIfNovel(@, m, TEMPLATE_CAP) ELSE @,
       !.supportive_response_templates =
           IF HasText(m, SUPPORTIVE_WORDS) THEN AppendIfNovel(@, m, TEMPLATE_CAP) ELSE @,
       !.humor_templates =
           IF HasText(m, HUMOR_WORDS) THEN AppendIfNovel(@, m, TEMPLATE_CAP) ELSE @]

\* _learn_from_your_message: the counter, the exemplar lists, the confidence, the
\* interactions analysed
LearnFromYourMessage(st, m) ==
    LET total == st.total_messages + 1
    IN [UpdateResponseTemplates(st, m) EXCEPT
          !.exists = TRUE,
          !.total_messages = total,
          !.total_interactions_analyzed = total,
          !.confidence_score = StyleConfidence(total)]

\* analyze_message writing the style row whoever the sender is
StyleAfter_AnySender(st, sender, m, fault) ==
    IF fault # "late" THEN LearnFromYourMessage(st, m) ELSE st

\* ChatStyleAnalyzer.analyze_message: the style row is written only for the owning
\* user's messages, and only when the final commit is reached
StyleAfter(st, sender, m, fault) ==
    IF sender = Owner /\ fault # "late" THEN LearnFromYourMessage(st, m) ELSE st

\* DatabaseManager.process_message -> ChatStyleAnalyzer.analyze_message
ProcessMessage(db, sender, m, fault) ==
    IF ~database_available \/ fault = "no_session" THEN db
    ELSE [ut |-> UserTotalAfter(db.ut, sender, fault),
          st |-> StyleAfter(db.st, sender, m, fault)]

\* ---------------------------------------------------------- WhatsAppClient
Pending(t) == task[t].pc = "sleep"

\* disable_auto_reply completing while replies for u wait out their delay
MarkCancelled(tk, u) ==
    [t \in Tasks |-> IF tk[t].pc = "sleep" /\ tk[t].sender = u
                     THEN [tk[t] EXCEPT !.cancelled = TRUE] ELSE tk[t]]

\* a reply for u accepted while earlier replies for u wait out their delay
MarkSuperseded(tk, u) ==
    [t \in Tasks |-> IF tk[t].pc = "sleep" /\ tk[t].sender = u
                     THEN [tk[t] EXCEPT !.superseded = TRUE] ELSE tk[t]]

\* handle_autoreply_toggle: on / off / toggle on the current status
EnabledAfterToggle(u, args) ==
    IF args \in {<<"on">>, <<"enable">>, <<"start">>} THEN enabled_users \cup {u}
    ELSE IF args \in {<<"off">>, <<"disable">>, <<"stop">>} THEN enabled_users \ {u}
    ELSE IF IsEnabled(u) THEN enabled_users \ {u}
    ELSE enabled_users \cup {u}

SinceSend(u) == IF lastAutoSend[u] = -1 THEN -1 ELSE now - lastAutoSend[u]

LastOf(sender, m, kind, gate, fault) ==
    [sender |-> sender, kind |-> kind, gate |-> gate,
     reserved |-> StartsWithAny(Strip(m), RESERVED_PREFIXES),
     wasEnabled |-> IsEnabled(sender), recent |-> RecentResponses(sender),
     sinceSend |-> SinceSend(sender), fault |-> FaultAt(fault, "gate"),
     obs |-> NoPatterns]

\* the run's budget after task t has handled a message with this fault
EnvAfter(t, fault) ==
    [env EXCEPT !.msgs = IF t = "loop" THEN @ - 1 ELSE @,
                !.faults = IF fault = NoFault THEN @ ELSE @ - 1]

\* handle_incoming_message: a text without content is skipped
SkipEmpty(t, sender, m) ==
    /\ Strip(m) = <<>>
    /\ last' = LastOf(sender, m, "skipped", "none", NoFault)
    /\ env' = EnvAfter(t, NoFault)
    /\ task' = [task EXCEPT ![t] = Returned(t)]
    /\ UNCHANGED <<enabled_users, response_timing, message_history, avg_interval,
                   user_total, style, ownerSeen>>

\* process_text_message -> handle_command: only the autoreply toggle changes state
HandleCommand(t, sender, m) ==
    /\ Strip(m) # <<>>
    /\ StartsWith(m, BOT_PREFIX)
    /\ LET toggles == CommandWord(m) = <<"autoreply">>
           en == IF toggles THEN EnabledAfterToggle(sender, CommandArgs(m))
                 ELSE enabled_users
           done == [task EXCEPT ![t] = Returned(t)]
       IN /\ enabled_users' = en
          /\ task' = IF sender \in enabled_users /\ sender \notin en
                     THEN MarkCancelled(done, sender) ELSE done
    /\ last' = LastOf(sender, m, "command", "none", NoFault)
    /\ env' = EnvAfter(t, NoFault)
    /\ UNCHANGED <<response_timing, message_history, avg_interval, user_total, style,
                   ownerSeen>>

\* whether some draws make should_auto_reply answer accept
CanGate(sender, m, gf, accept) ==
    \E d1 \in Draws, d2 \in Draws, d3 \in Draws :
        ShouldAutoReply(sender, m, d1, d2, d3, gf) = accept

\* an exception is raised only in code that runs: the database writes when the
\* database is available, the gating and the generation for an enabled sender
FaultReached(sender, fault) ==
    /\ fault[1] \in {"store1", "store2"} => database_available
    /\ fault[1] \in {"gate", "reply"} => IsEnabled(sender)

\* process_text_message for a text that is no command, up to the delay of the
\* autonomous reply: both database writes, the answer, the gating, the generation
HandleText(t, sender, m) ==
    /\ Strip(m) # <<>>
    /\ ~StartsWith(m, BOT_PREFIX)
    /\ \E fault \in Faults :
         /\ fault # NoFault => env.faults > 0
         /\ FaultReached(sender, fault)
         /\ env' = EnvAfter(t, fault)
         /\ LET aiFails == fault[1] = "answer"
                db0 == [ut |-> user_total, st |-> style]
                db1 == ProcessMessage(db0, sender, m, FaultAt(fault, "store1"))
                db2 == IF aiFails THEN db1
                       ELSE ProcessMessage(db1, sender, m, FaultAt(fault, "store2"))
                gf == FaultAt(fault, "gate")
                rf == FaultAt(fault, "reply")
            IN /\ user_total' = db2.ut
               /\ style' = db2.st
               /\ ownerSeen' = IF sender = Owner THEN ownerSeen + 1 ELSE ownerSeen
               /\ UNCHANGED enabled_users
               /\ \/ /\ aiFails \/ ~IsEnabled(sender)
                     /\ last' = LastOf(sender, m, "text",
                                       IF aiFails THEN "failed" ELSE "not_enabled", fault)
                     /\ task' = [task EXCEPT ![t] = Returned(t)]
                     /\ UNCHANGED <<response_timing, message_history, avg_interval>>
                  \/ /\ ~aiFails /\ IsEnabled(sender)
                     /\ rf = "none"
                     /\ CanGate(sender, m, gf, FALSE)
                     /\ last' = LastOf(sender, m, "text", "rejected", fault)
                     /\ task' = [task EXCEPT ![t] = Returned(t)]
                     /\ UNCHANGED <<response_timing, message_history, avg_interval>>
                  \/ /\ ~aiFails /\ IsEnabled(sender)
                     /\ CanGate(sender, m, gf, TRUE)
                     /\ GenerateAutoReply(sender, rf) = "none"
                     /\ last' = LastOf(sender, m, "text", "no_reply", fault)
                     /\ task' = [task EXCEPT ![t] = Returned(t)]
                     /\ message_history' = [message_history EXCEPT
                                              ![sender] = HistoryAfter(sender)]
                     /\ avg_interval' = [avg_interval EXCEPT
                                           ![sender] = AvgIntervalAfter(sender)]
                     /\ UNCHANGED response_timing
                  \/ /\ ~aiFails /\ IsEnabled(sender)
                     /\ CanGate(sender, m, gf, TRUE)
                     /\ GenerateAutoReply(sender, rf) # "none"
                     /\ last' = LastOf(sender, m, "text", "accepted", fault)
                     /\ message_history' = [message_history EXCEPT
                                              ![sender] = HistoryAfter(sender)]
                     /\ avg_interval' = [avg_interval EXCEPT
                                           ![sender] = AvgIntervalAfter(sender)]
                     /\ response_timing' = [response_timing EXCEPT
                                              ![sender] = TimingAfter(sender)]
                     /\ \E base \in BaseDelays :
                          task' = [MarkSuperseded(task, sender) EXCEPT ![t] =
                                     [pc |-> "sleep", sender |-> sender, msg |-> m,
                                      fireAt |-> now + GetAutoReplyDelay(
                                                     base, base, AvgIntervalAfter(sender),
                                                     "none"),
                                      acceptedAt |-> now,
                                      cancelled |-> FALSE, superseded |-> FALSE,
                                      faulted |-> gf # "none" \/ rf # "none"]]

\* handle_incoming_message -> process_text_message
HandleIncomingMessage(t, sender, m) ==
    \/ SkipEmpty(t, sender, m)
    \/ HandleCommand(t, sender, m)
    \/ HandleText(t, sender, m)

\* process_incoming_messages: the loop awaits the handling of one message of the
\* feed before it takes the next
LoopMessage ==
    /\ task["loop"].pc = "idle"
    /\ env.msgs > 0
    /\ \E sender \in env.senders, m \in env.feed :
         HandleIncomingMessage("loop", sender, m)
    /\ UNCHANGED <<now, database_available, learner, lastSend, lastAutoSend>>

\* test_message_processor: thirty seconds after the connection, one test message
TestMessage ==
    /\ task["test"].pc = "wait"
    /\ now >= task["test"].fireAt
    /\ HandleIncomingMessage("test", TestUser, TEST_MESSAGE)
    /\ UNCHANGED <<now, database_available, learner, lastSend, lastAutoSend>>

\* process_text_message after asyncio.sleep(delay): send_message, with no look at
\* enabled_users, on a failure of the transport trying the entry again
Fire_Retrying(t) ==
    /\ Pending(t)
    /\ now >= task[t].fireAt
    /\ \E fault \in {"none", "send"} :
         /\ fault # "none" => env.drops > 0
         /\ env' = [env EXCEPT !.drops = IF fault = "none" THEN @ ELSE @ - 1]
         /\ lastSend' = [to |-> task[t].sender, cancelled |-> task[t].cancelled,
                         superseded |-> task[t].superseded, faulted |-> task[t].faulted,
                         enabled |-> IsEnabled(task[t].sender), task |-> t,
                         delivered |-> fault = "none",
                         replies |-> IF fault = "none" THEN 2 ELSE 1]
         /\ lastAutoSend' = IF fault = "none"
                            THEN [lastAutoSend EXCEPT ![task[t].sender] = now]
                            ELSE lastAutoSend
         /\ task' = IF fault = "none" THEN [task EXCEPT ![t] = Returned(t)] ELSE task
    /\ UNCHANGED <<now, enabled_users, response_timing, message_history, avg_interval,
                   database_available, user_total, style, learner, last, ownerSeen>>

\* process_text_message after asyncio.sleep(delay): send_message, with no look at
\* enabled_users. send_via_bridge logs a failure of the transport and returns, and
\* the handler ends either way. The message is the second one sent for the
\* incoming message: the answer of the AI processor went out before the gating.
Fire(t) ==
    /\ Pending(t)
    /\ now >= task[t].fireAt
    /\ \E fault \in {"none", "send"} :
         /\ fault # "none" => env.drops > 0
         /\ env' = [env EXCEPT !.drops = IF fault = "none" THEN @ ELSE @ - 1]
         /\ lastSend' = [to |-> task[t].sender, cancelled |-> task[t].cancelled,
                         superseded |-> task[t].superseded, faulted |-> task[t].faulted,
                         enabled |-> IsEnabled(task[t].sender), task |-> t,
                         delivered |-> fault = "none",
                         replies |-> IF fault = "none" THEN 2 ELSE 1]
         /\ lastAutoSend' = IF fault = "none"
                            THEN [lastAutoSend EXCEPT ![task[t].sender] = now]
                            ELSE lastAutoSend
    /\ task' = [task EXCEPT ![t] = Returned(t)]
    /\ UNCHANGED <<now, enabled_users, response_timing, message_history, avg_interval,
                   database_available, user_total, style, learner, last, ownerSeen>>

\* the timers that are running: the delays and the test task's thirty seconds
Timers == {task[t].fireAt : t \in {x \in Tasks : task[x].pc \in {"sleep", "wait"}}}

\* time passes, up to the next timer that is due
Advance ==
    /\ \E target \in Timers \cup {now + Sec(TIMING_WINDOW)} :
         /\ target > now
         /\ \A d \in Timers : d >= now /\ target <= d
         /\ target <= env.horizon
         /\ now' = target
    /\ UNCHANGED <<enabled_users, response_timing, message_history, avg_interval, task,
                   database_available, user_total, style, learner, env, last, lastSend,
                   lastAutoSend, ownerSeen>>

\* ------------------------------------------------------- PersonalityLearner
\* the step function with the medium band tested against the high band's limit
StepConfidence_WrongLimit(n) ==
    IF n < LOW_BELOW THEN LOW_CONFIDENCE
    ELSE IF n < HIGH_BELOW THEN MEDIUM_CONFIDENCE
    ELSE TOP_CONFIDENCE

\* update_profile_with_patterns: the confidence as a step function of the count
StepConfidence(n) ==
    IF n < LOW_BELOW THEN LOW_CONFIDENCE
    ELSE IF n < MEDIUM_BELOW THEN MEDIUM_CONFIDENCE
    ELSE IF n < HIGH_BELOW THEN HIGH_CONFIDENCE
    ELSE TOP_CONFIDENCE

StepReliability(n) ==
    IF n < LOW_BELOW THEN "low"
    ELSE IF n < MEDIUM_BELOW THEN "medium"
    ELSE IF n < HIGH_BELOW THEN "high"
    ELSE "very_high"

\* update_profile_with_patterns falling back to the default metadata on an exception
UpdateProfileWithPatterns_Reset(profile, fault) ==
    IF fault = "update" THEN DefaultProfile
    ELSE LET n == profile.total_messages_analyzed + 1
         IN [total_messages_analyzed |-> n, confidence_score |-> StepConfidence(n),
             pattern_reliability |-> StepReliability(n)]

\* update_profile_with_patterns computing the confidence before it counts the message
UpdateProfileWithPatterns_Stale(profile, fault) ==
    IF fault = "update" THEN profile
    ELSE LET n == profile.total_messages_analyzed
         IN [total_messages_analyzed |-> n + 1, confidence_score |-> StepConfidence(n),
             pattern_reliability |-> StepReliability(n)]

\* update_profile_with_patterns: an exception while the patterns are merged leaves
\* the metadata as it was; otherwise the count grows by one and the confidence and
\* the reliability are recomputed from it
UpdateProfileWithPatterns(profile, fault) ==
    IF fault = "update" THEN profile
    ELSE LET n == profile.total_messages_analyzed + 1
         IN [total_messages_analyzed |-> n, confidence_score |-> StepConfidence(n),
             pattern_reliability |-> StepReliability(n)]

\* dict.get(key, 0)
WeightOf(map, k) == IF map[k] = NoWeight THEN 0 ELSE map[k]

\* the smoothing adding the observation to the old weight
ExponentialSmoothing_Accumulate(old, count) == old + count * UNIT

\* the smoothing with its two constants swapped
ExponentialSmoothing_Swapped(old, count) ==
    (SMOOTH_LEARN * old + SMOOTH_RETAIN * count * UNIT) \div 10

\* new_count = current_count * 0.8 + count * 0.2
ExponentialSmoothing(old, count) ==
    (SMOOTH_RETAIN * old + SMOOTH_LEARN * count * UNIT) \div 10

\* new_caps = current_caps * 0.9 + caps_ratio * 0.1
SmoothCaps(cur, ratio) == (CAPS_RETAIN * cur + CAPS_LEARN * ratio) \div 10

\* the label a tone gets when its score is above 0.5
MoodLabel(pt) ==
    IF 10 * pt.caps_ratio > 3 * UNIT THEN "emphatic_caps"
    ELSE IF pt.exclamation_count > 2 THEN "enthusiastic_exclamations"
    ELSE "expressive"

\* score > 0.5, the score being the count over max(word count, 1)
StrongTone(pt, tone) == 2 * pt.tone_counts[tone] > Max(pt.word_count, 1)

\* the buckets with a text of exactly 150 characters counted as medium
LengthPreference_Inclusive(length) ==
    IF length < SHORT_BELOW THEN "short"
    ELSE IF length <= MEDIUM_LENGTH_BELOW THEN "medium"
    ELSE "long"

\* if avg_length < 50 ... elif avg_length < 150 ... else
LengthPreference(length) ==
    IF length < SHORT_BELOW THEN "short"
    ELSE IF length < MEDIUM_LENGTH_BELOW THEN "medium"
    ELSE "long"

\* an update that also decays the weight of every key the message does not hold
UpdateCommunicationStyle_Decaying(comm, pt, fault) ==
    IF fault = "update" THEN comm
    ELSE [common_phrases |->
              [k \in PHRASE_KEYS |->
                 IF pt.common_phrases[k] > 0 \/ comm.common_phrases[k] # NoWeight
                 THEN ExponentialSmoothing(WeightOf(comm.common_phrases, k),
                                           pt.common_phrases[k])
                 ELSE comm.common_phrases[k]],
          emoji_usage |->
              [k \in EMOJI_KEYS |->
                 IF pt.emoji_usage[k] > 0 \/ comm.emoji_usage[k] # NoWeight
                 THEN ExponentialSmoothing(WeightOf(comm.emoji_usage, k),
                                           pt.emoji_usage[k])
                 ELSE comm.emoji_usage[k]],
          mood_patterns |->
              [tone \in TONES |->
                 IF StrongTone(pt, tone) THEN MoodLabel(pt) ELSE comm.mood_patterns[tone]],
          response_length_preference |->
              IF pt.length > 0 THEN LengthPreference(pt.length)
              ELSE comm.response_length_preference,
          caps_usage_frequency |-> SmoothCaps(comm.caps_usage_frequency, pt.caps_ratio)]

\* update_profile_with_patterns, the communication style and the mood patterns
UpdateCommunicationStyle(comm, pt, fault) ==
    IF fault = "update" THEN comm
    ELSE [common_phrases |->
              [k \in PHRASE_KEYS |->
                 IF pt.common_phrases[k] > 0
                 THEN ExponentialSmoothing(WeightOf(comm.common_phrases, k),
                                           pt.common_phrases[k])
                 ELSE comm.common_phrases[k]],
          emoji_usage |->
              [k \in EMOJI_KEYS |->
                 IF pt.emoji_usage[k] > 0
                 THEN ExponentialSmoothing(WeightOf(comm.emoji_usage, k),
                                           pt.emoji_usage[k])
                 ELSE comm.emoji_usage[k]],
          mood_patterns |->
              [tone \in TONES |->
                 IF StrongTone(pt, tone) THEN MoodLabel(pt) ELSE comm.mood_patterns[tone]],
          response_length_preference |->
              IF pt.length > 0 THEN LengthPreference(pt.length)
              ELSE comm.response_length_preference,
          caps_usage_frequency |-> SmoothCaps(comm.caps_usage_frequency, pt.caps_ratio)]

\* should_save_profile
ShouldSaveProfile(profile, count, buffer) ==
    \/ count % SAVE_THRESHOLD = 0
    \/ profile.confidence_score \in {LOW_CONFIDENCE, MEDIUM_CONFIDENCE, HIGH_CONFIDENCE,
                                     TOP_CONFIDENCE}
    \/ buffer > BUFFER_LIMIT

\* save_learned_data: an exception while saving leaves the buffer uncleared
SaveLearnedData(lr, fault) ==
    IF fault = "save" THEN lr ELSE [lr EXCEPT !.stored = lr.profile, !.buffer = 0]

LearnerFaults == {"none", "analysis", "update", "save"}

\* learn_from_user_message
LearnFromUserMessage(lr, m, fault) ==
    IF m = <<>> \/ CharLen(Strip(m)) < MIN_LEARN_CHARS THEN lr
    ELSE IF fault = "analysis" THEN lr
    ELSE LET updated == [lr EXCEPT
                           !.buffer = @ + 1,
                           !.profile = UpdateProfileWithPatterns(@, fault),
                           !.comm = UpdateCommunicationStyle(
                                        @, AnalyzeMessagePatterns(m), fault),
                           !.interaction_count = @ + 1]
         IN IF ShouldSaveProfile(updated.profile, updated.interaction_count, updated.buffer)
            THEN SaveLearnedData(updated, fault)
            ELSE updated

\* the PersonalityLearner is given one message of the owning user
Learn ==
    /\ env.mode = "learner"
    /\ learner.interaction_count < MaxAnalyzed
    /\ \E m \in Messages, fault \in LearnerFaults :
         /\ fault # "none" => env.faults > 0
         /\ learner' = LearnFromUserMessage(learner, m, fault)
         /\ last' = [NoLast EXCEPT
                       !.sender = Owner,
                       !.kind = IF learner' = learner THEN "skipped" ELSE "learned",
                       !.fault = fault,
                       !.obs = AnalyzeMessagePatterns(m)]
         /\ env' = [env EXCEPT !.faults = IF fault = "none" THEN @ ELSE @ - 1]
    /\ UNCHANGED <<now, enabled_users, response_timing, message_history, avg_interval,
                   task, database_available, user_total, style, lastSend, lastAutoSend,
                   ownerSeen>>

StoreFaults == {"none", "no_session", "stats", "late"}

\* texts that hold none of the words the exemplar lists look for
StyleFeed == {<<"ok">>, <<"are", " ", "you", " ", "there", "?">>}

\* the DatabaseManager is given one message: process_message
Analyze ==
    /\ env.mode = "style"
    /\ user_total[Owner] < MaxAnalyzed
    /\ style.total_messages < MaxAnalyzed
    /\ \E sender \in env.senders, m \in StyleFeed, fault \in StoreFaults :
         /\ fault # "none" => env.faults > 0
         /\ LET db == ProcessMessage([ut |-> user_total, st |-> style], sender, m, fault)
            IN /\ user_total' = db.ut
               /\ style' = db.st
         /\ last' = [NoLast EXCEPT !.sender = sender, !.kind = "analyzed",
                                   !.fault = fault]
         /\ env' = [env EXCEPT !.faults = IF fault = "none" THEN @ ELSE @ - 1]
    /\ UNCHANGED <<now, enabled_users, response_timing, message_history, avg_interval,
                   task, database_available, learner, lastSend, lastAutoSend, ownerSeen>>

\* the two profile stores on their own, each fed the owning user's messages
InitProfile ==
    /\ Constructed
    /\ database_available = TRUE
    /\ env \in {[mode |-> md, senders |-> {Owner}, msgs |-> 0,
                 faults |-> MaxFaults, drops |-> 0, horizon |-> 0, context |-> UserContext] :
               md \in {"learner", "style"}}

SpecProfile == InitProfile /\ [][Learn \/ Analyze]_vars

\* short, emoji-free texts with the word "ok"
ShortTexts == {<<"ok">>, <<"ok", " ", "ok">>, <<"ok", " ", "see", " ", "you">>}

\* the owning user sends one short emoji-free message to the PersonalityLearner
SendShort ==
    /\ env.mode = "scenario"
    /\ env.msgs > 0
    /\ \E m \in ShortTexts, fault \in LearnerFaults :
         /\ fault # "none" => env.faults > 0
         /\ learner' = LearnFromUserMessage(learner, m, fault)
         /\ last' = [NoLast EXCEPT
                       !.sender = Owner,
                       !.kind = IF learner' = learner THEN "skipped" ELSE "learned",
                       !.fault = fault,
                       !.obs = AnalyzeMessagePatterns(m)]
         /\ env' = [env EXCEPT !.msgs = @ - 1,
                               !.faults = IF fault = "none" THEN @ ELSE @ - 1]
    /\ ownerSeen' = ownerSeen + 1
    /\ UNCHANGED <<now, enabled_users, response_timing, message_history, avg_interval,
                   task, database_available, user_total, style, lastSend, lastAutoSend>>

\* a fresh profile and a run of short messages of the owning user
InitScenarioA ==
    /\ Constructed
    /\ database_available = TRUE
    /\ env = [mode |-> "scenario", senders |-> {Owner}, msgs |-> MaxShortMsgs,
              faults |-> MaxFaults, drops |-> 0, horizon |-> 0, context |-> UserContext]

SpecScenarioA == InitScenarioA /\ [][SendShort]_vars

\* texts with listed phrases, emojis, capitals and exclamation marks
SmoothTexts == {
    <<"wow">>,
    <<"WOW">>,
    <<"wow", "!", "!", "!">>,
    <<"cool", " ", "cool">>,
    <<"ok", " ", ":grin:">>,
    <<":grin:", " ", ":grin:">>,
    <<"ok", " ", "ok">> }

\* the PersonalityLearner is given one message that carries patterns
Smooth ==
    /\ env.mode = "smoothing"
    /\ learner.interaction_count < MaxSmoothUpdates
    /\ \E m \in env.feed, fault \in LearnerFaults :
         /\ fault # "none" => env.faults > 0
         /\ learner' = LearnFromUserMessage(learner, m, fault)
         /\ last' = [NoLast EXCEPT
                       !.sender = Owner,
                       !.kind = IF learner' = learner THEN "skipped" ELSE "learned",
                       !.fault = fault,
                       !.obs = AnalyzeMessagePatterns(m)]
         /\ env' = [env EXCEPT !.faults = IF fault = "none" THEN @ ELSE @ - 1]
    /\ UNCHANGED <<now, enabled_users, response_timing, message_history, avg_interval,
                   task, database_available, user_total, style, lastSend, lastAutoSend,
                   ownerSeen>>

\* a fresh profile and a few messages that carry patterns
InitSmoothing ==
    /\ Constructed
    /\ database_available = TRUE
    /\ env = [mode |-> "smoothing", senders |-> {Owner}, msgs |-> 0,
              faults |-> MaxFaults, drops |-> 0, horizon |-> 0, context |-> UserContext,
              feed |-> SmoothTexts]

SpecSmoothing == InitSmoothing /\ [][Smooth]_vars

\* a text of 7 * n characters: n runs of seven letters, without blanks
Filler(n) == [i \in 1..n |-> "letters"]

\* texts of 3, 49, 50, 51, 149, 150 and 151 characters, around the limits of the
\* three length buckets
LengthTexts == {
    <<"see">>,
    Filler(7),
    Filler(7) \o <<"a">>,
    Filler(7) \o <<"a", "i">>,
    Filler(21) \o <<"a", "i">>,
    Filler(21) \o <<"see">>,
    Filler(21) \o <<"shop">> }

\* a fresh profile and messages of those lengths
InitLength ==
    /\ Constructed
    /\ database_available = TRUE
    /\ env = [mode |-> "smoothing", senders |-> {Owner}, msgs |-> 0,
              faults |-> MaxFaults, drops |-> 0, horizon |-> 0, context |-> UserContext,
              feed |-> LengthTexts]

SpecLength == InitLength /\ [][Smooth]_vars

\* the n-th text of a family of texts that differ in their number only
TemplateText(word, n) ==
    CASE word = "how" -> <<word, " ", ToString(n), "?">>
      [] word = "thanks" -> <<word, " ", ToString(n), " ", "lol">>
      [] OTHER -> <<word, " ", ToString(n)>>

\* the numbers of a family worth sending: the last one kept and the first one
\* not yet kept
NextNumbers(list) == {k \in {Len(list), Len(list) + 1} : k > 0}

\* the texts a run may analyse next
TemplateFeed ==
    {TemplateText("hello", n) : n \in NextNumbers(style.conversation_starters)}
    \cup {TemplateText("how", n) : n \in NextNumbers(style.question_response_templates)}
    \cup {TemplateText("thanks", n) : n \in NextNumbers(style.supportive_response_templates)}

\* the DatabaseManager is given one message that an exemplar list may keep
AnalyzeTemplate ==
    /\ env.mode = "templates"
    /\ user_total[Owner] < MaxTemplateMsgs
    /\ style.total_messages < MaxTemplateMsgs
    /\ \E m \in TemplateFeed, fault \in StoreFaults :
         /\ fault # "none" => env.faults > 0
         /\ LET db == ProcessMessage([ut |-> user_total, st |-> style], Owner, m, fault)
            IN /\ user_total' = db.ut
               /\ style' = db.st
         /\ last' = [NoLast EXCEPT !.sender = Owner, !.kind = "analyzed",
                                   !.fault = fault]
         /\ env' = [env EXCEPT !.faults = IF fault = "none" THEN @ ELSE @ - 1]
    /\ UNCHANGED <<now, enabled_users, response_timing, message_history, avg_interval,
                   task, database_available, learner, lastSend, lastAutoSend, ownerSeen>>

\* a fresh style row and a run of messages the exemplar lists look for
InitTemplates ==
    /\ Constructed
    /\ database_available = TRUE
    /\ env = [mode |-> "templates", senders |-> {Owner}, msgs |-> 0,
              faults |-> MaxFaults, drops |-> 0, horizon |-> 0, context |-> UserContext]

SpecTemplates == InitTemplates /\ [][AnalyzeTemplate]_vars

\* ------------------------------------------------------ synthesis and styling
\* the emojis _apply_user_style looks for, the ones it appends, and the others
\* that occur in the templates and in the mimicker's tests
STYLE_EMOJIS_SEEN == {":smile:", ":joy:", ":fire:", ":heart:", ":thumbsup:", ":muscle:",
                      ":thinking:"}
STYLE_EMOJIS_ADDED == {":smile:", ":thinking:", ":thought:", ":sparkles:", ":star2:"}
EMOJIS == STYLE_EMOJIS_SEEN \cup STYLE_EMOJIS_ADDED \cup EMOJI_KEYS
              \cup {":rofl:", ":100:", ":star:", ":monocle:", ":raised_hands:", ":clap:"}

\* ord(char) >= 127 and not char.isspace(): in this vocabulary, the emojis
NonAscii(tok) == tok \in EMOJIS

EmojiCount(m) == Cardinality({i \in 1..Len(m) : m[i] \in EMOJIS})

\* _load_response_templates: the first text of four of the lists
RESPONSE_TEMPLATES == {
    <<"hey", "!", " ", "great", " ", "to", " ", "hear", " ", "from", " ", "you", "!", " ",
      ":smile:">>,
    <<"i", " ", "hear", " ", "you", ".", " ", "that", " ", "sounds", " ", "really", " ",
      "tough", ".">>,
    <<"you've", " ", "got", " ", "this", "!", " ", "i", " ", "believe", " ", "in", " ",
      "you", "!", " ", ":muscle:">>,
    <<"wow", ",", " ", "that's", " ", "intriguing", "!", " ", "can", " ", "you", " ",
      "elaborate", "?">> }

\* what _generate_contextual_response adds for an excited or a sad message
TONE_SUFFIXES == {
    <<>>,
    <<" ", "your", " ", "energy", " ", "is", " ", "contagious", "!">>,
    <<" ", "i'm", " ", "here", " ", "if", " ", "you", " ", "need", " ", "to", " ", "talk",
      " ", "more", " ", "about", " ", "it", ".">> }

\* and the follow-up for a user who asks many questions
FOLLOW_UPS == { <<>>, <<" ", "what's", " ", "your", " ", "take", " ", "on", " ", "that", "?">> }

\* the replies of the AI processor that _generate_contextual_response hands on
\* as they are: any non-empty text shorter than 200 characters
AI_REPLIES == { <<":thumbsup:">>, <<"ok", " ", ":thumbsup:">>, <<"hi", " ", "there">> }

\* the text _generate_contextual_response returns when it fails
FALLBACK_RESPONSE == <<"that's", " ", "interesting", "!", " ", "i'd", " ", "love", " ", "to",
                       " ", "hear", " ", "more", " ", "about", " ", "your", " ",
                       "thoughts", " ", "on", " ", "this", ".">>

\* _generate_contextual_response: every text it can return
ContextualResponses ==
    {t \o s \o f : t \in RESPONSE_TEMPLATES, s \in TONE_SUFFIXES, f \in FOLLOW_UPS}
    \cup AI_REPLIES \cup {FALLBACK_RESPONSE}

\* the extensions _apply_user_style appends for a user who prefers long replies
EXTENSIONS == {
    <<" ", "i've", " ", "been", " ", "thinking", " ", "about", " ", "this", " ", "kind",
      " ", "of", " ", "thing", " ", "lately", ".">>,
    <<" ", "it's", " ", "fascinating", " ", "how", " ", "these", " ", "topics", " ",
      "come", " ", "up", " ", "in", " ", "conversation", ".">>,
    <<" ", "there's", " ", "always", " ", "more", " ", "to", " ", "explore", " ", "on",
      " ", "subjects", " ", "like", " ", "this", ".">>,
    <<" ", "i", " ", "find", " ", "these", " ", "discussions", " ", "really", " ",
      "engaging", ".">> }

SHORTEN_ABOVE_WORDS == 15
EXTEND_BELOW_WORDS == 10

\* response.split('. ')[0]
FirstSentence(m) ==
    LET ends == {i \in 1..(Len(m) - 1) : m[i] = "." /\ m[i + 1] = " "}
    IN IF ends = {} THEN m
       ELSE SubSeq(m, 1, (CHOOSE i \in ends : \A j \in ends : i <= j) - 1)

\* the user patterns enable_auto_reply and _analyze_existing_patterns can leave
UserStyles == [preferred_length : {"short", "medium", "long"},
               emoji_usage : {"low", "moderate", "high"}]

\* _apply_user_style with the emoji branches exchanged
ApplyUserStyle_Exchanged(response, user_style, extension, emoji, fault) ==
    IF fault = "style" THEN response
    ELSE LET sized ==
               IF user_style.preferred_length = "short"
                  /\ WordCount(response) > SHORTEN_ABOVE_WORDS
               THEN LET first == FirstSentence(response)
                    IN IF first # <<>> /\ first[Len(first)] = "." THEN first
                       ELSE Append(first, ".")
               ELSE IF user_style.preferred_length = "long"
                       /\ WordCount(response) < EXTEND_BELOW_WORDS
               THEN response \o extension
               ELSE response
         IN IF user_style.emoji_usage = "low" /\ ~ContainsAny(sized, STYLE_EMOJIS_SEEN)
            THEN sized \o <<" ", emoji>>
            ELSE IF user_style.emoji_usage = "high"
            THEN SelectSeq(sized, LAMBDA tok : ~NonAscii(tok))
            ELSE sized

\* AutoReplyManager._apply_user_style: an exception inside it returns the response
ApplyUserStyle(response, user_style, extension, emoji, fault) ==
    IF fault = "style" THEN response
    ELSE LET sized ==
               IF user_style.preferred_length = "short"
                  /\ WordCount(response) > SHORTEN_ABOVE_WORDS
               THEN LET first == FirstSentence(response)
                    IN IF first # <<>> /\ first[Len(first)] = "." THEN first
                       ELSE Append(first, ".")
               ELSE IF user_style.preferred_length = "long"
                       /\ WordCount(response) < EXTEND_BELOW_WORDS
               THEN response \o extension
               ELSE response
         IN IF user_style.emoji_usage = "high" /\ ~ContainsAny(sized, STYLE_EMOJIS_SEEN)
            THEN sized \o <<" ", emoji>>
            ELSE IF user_style.emoji_usage = "low"
            THEN SelectSeq(sized, LAMBDA tok : ~NonAscii(tok))
            ELSE sized

\* generate_auto_reply for an enabled user: None when a step outside the two
\* guarded ones raises, else the styled text
AutoReplyText(draft, user_style, extension, emoji, fault) ==
    IF fault = "analysis" THEN [returned |-> FALSE, text |-> <<>>]
    ELSE [returned |-> TRUE,
          text |-> ApplyUserStyle(draft, user_style, extension, emoji, fault)]

\* StyleMimicker({}): the profile the client constructs and never replaces
MimickerProfile == [emoji_usage |-> [e \in {} |-> 0], greeting_style |-> "casual"]

USED_OFTEN == 3
USED_VERY_OFTEN == 20
TOP_EMOJIS == 10

\* _add_learned_emojis: the chance, in hundredths, that emoji e is appended
EmojiChance(response, usage, e) ==
    IF e \in {":joy:", ":rofl:", ":grin:"}
       /\ HasText(response, {"funny", "haha", "joke", "lol"}) THEN 60
    ELSE IF e \in {":fire:", ":100:", ":star:"}
            /\ HasText(response, {"awesome", "amazing", "great", "perfect"}) THEN 50
    ELSE IF e \in {":thinking:", ":monocle:"}
            /\ HasText(response, {"think", "consider", "maybe", "wonder"}) THEN 40
    ELSE IF e \in {":muscle:", ":raised_hands:", ":clap:"}
            /\ HasText(response, {"great job", "well done", "success", "achieve"}) THEN 50
    ELSE IF usage[e] > USED_VERY_OFTEN THEN 20
    ELSE 0

\* _add_learned_emojis: the most used of the ten most used emojis whose draw
\* falls below its chance is appended
AddLearnedEmojis(response, usage, draw) ==
    LET Rank(e) == Cardinality({f \in DOMAIN usage : usage[f] > usage[e]})
        chosen == {e \in DOMAIN usage :
                     /\ Rank(e) < TOP_EMOJIS
                     /\ usage[e] > USED_OFTEN
                     /\ draw[e] < EmojiChance(response, usage, e)}
    IN IF chosen = {} THEN response
       ELSE response \o <<" ", CHOOSE e \in chosen : \A f \in chosen : Rank(e) <= Rank(f)>>

\* _apply_greeting_closing_patterns: what a word is replaced by
GreetingReplacement(tok, greeting_style) ==
    CASE greeting_style = "casual" /\ Lower(tok) = "hello" -> <<"hey">>
      [] greeting_style = "casual" /\ Lower(tok) = "hi" -> <<"yo">>
      [] greeting_style = "enthusiastic" /\ Lower(tok) = "hello" -> <<"hey", " ", "there", "!">>
      [] greeting_style = "enthusiastic" /\ Lower(tok) = "hi" -> <<"hi", " ", "there", "!">>
      [] greeting_style = "formal" /\ Lower(tok) = "hey" -> <<"hello">>
      [] greeting_style = "formal" /\ Lower(tok) = "yo" -> <<"good", " ", "day">>
      [] OTHER -> <<tok>>

RECURSIVE ReplaceGreetings(_, _)
ReplaceGreetings(m, greeting_style) ==
    IF m = <<>> THEN <<>>
    ELSE GreetingReplacement(Head(m), greeting_style)
             \o ReplaceGreetings(Tail(m), greeting_style)

ApplyGreetingClosingPatterns(response, greeting_style) ==
    IF HasText(response, {"hello", "hi", "hey"})
    THEN ReplaceGreetings(response, greeting_style)
    ELSE response

\* StyleMimicker.apply_user_style. With the defaults of an empty profile the
\* length, punctuation, caps, phrase and tone steps return their argument.
MimicUserStyle(base_response, profile, draw, fault) ==
    IF Strip(base_response) = <<>> THEN base_response
    ELSE IF fault = "mimic" THEN base_response
    ELSE Strip(ApplyGreetingClosingPatterns(
                   AddLearnedEmojis(base_response, profile.emoji_usage, draw),
                   profile.greeting_style))

\* re.sub(r'\s+', ' ', text).strip() of sanitize_text
RECURSIVE CollapseBlanks(_)
CollapseBlanks(m) ==
    IF Len(m) < 2 THEN m
    ELSE IF m[1] = " " /\ m[2] = " " THEN CollapseBlanks(Tail(m))
    ELSE <<Head(m)>> \o CollapseBlanks(Tail(m))
SanitizeText(m) == Strip(CollapseBlanks(m))

\* process_text_message, the auto-reply branch after the gate: what is sent
DeliverAutoReply(auto, profile, draw, fault) ==
    IF ~auto.returned \/ auto.text = <<>> THEN [sent |-> FALSE, text |-> <<>>]
    ELSE LET styled == MimicUserStyle(auto.text, profile, draw, fault)
         IN [sent |-> TRUE,
             text |-> SanitizeText(IF styled = <<>> THEN auto.text ELSE styled)]

\* one accepted message is answered: generate_auto_reply, then the styling and
\* the sending of process_text_message
Synthesize ==
    /\ env.mode = "synthesis"
    /\ last.kind # "styled"
    /\ \E extension \in EXTENSIONS, emoji \in STYLE_EMOJIS_ADDED,
          fault \in {"none", "analysis", "style", "mimic"},
          draw \in [DOMAIN MimickerProfile.emoji_usage -> Draws] :
         /\ fault # "none" => env.faults > 0
         /\ LET auto == AutoReplyText(env.draft, env.user_style, extension, emoji, fault)
                out == DeliverAutoReply(auto, MimickerProfile, draw, fault)
            IN last' = [NoLast EXCEPT
                          !.sender = TestUser,
                          !.kind = "styled",
                          !.fault = fault,
                          !.obs = [draft |-> env.draft, user_style |-> env.user_style,
                                   returned |-> auto.returned, reply |-> auto.text,
                                   sent |-> out.sent, delivered |-> out.text]]
         /\ env' = [env EXCEPT !.faults = IF fault = "none" THEN @ ELSE @ - 1]
    /\ UNCHANGED <<now, enabled_users, response_timing, message_history, avg_interval,
                   task, database_available, user_total, style, learner, lastSend,
                   lastAutoSend, ownerSeen>>

\* an enabled user with learned patterns, and the draft of a reply to an
\* accepted message
InitSynthesis ==
    /\ Constructed
    /\ database_available = TRUE
    /\ \E draft \in ContextualResponses, user_style \in UserStyles :
         env = [mode |-> "synthesis", senders |-> {TestUser}, msgs |-> 0,
                faults |-> MaxFaults, drops |-> 0, horizon |-> 0, context |-> UserContext,
                draft |-> draft,
                user_style |-> user_style]

SpecSynthesis == InitSynthesis /\ [][Synthesize]_vars

\* ------------------------------------------------------------ gating policy
\* 'What do you think about the new shop in town and the plan for it?'
LongQuestion == <<"what", " ", "do", " ", "you", " ", "think", " ", "about", " ", "the",
                  " ", "new", " ", "shop", " ", "in", " ", "town", " ", "and", " ", "the",
                  " ", "plan", " ", "for", " ", "it", "?">>
SadLongQuestion == <<"so", " ", "sad", "!", " ", "what", " ", "do", " ", "you", " ", "think",
                     " ", "about", " ", "the", " ", "new", " ", "shop", " ", "in", " ",
                     "town", "?">>
GatingMessages == Messages \cup {LongQuestion, SadLongQuestion}

\* the contexts should_auto_reply may be given
Contexts == {UserContext, NoneContext} \cup
            {[recent_message_count |-> n] : n \in {0, BUSY_MESSAGE_COUNT,
                                                   BUSY_MESSAGE_COUNT + 1}}

\* the random draws around the probabilities the policy returns
GateDraws == Draws \cup {49, 50, 59, 60, 89, 90}

\* the exceptions should_auto_reply can meet: a context that is no mapping
\* makes the probability fail, whatever else happens
GateFaults == IF env.context = NoneContext THEN {"probability"}
              ELSE {"none", "timing", "gating"}

\* should_auto_reply is asked about the message of an enabled user
Gate ==
    /\ env.mode = "gating"
    /\ last.kind # "gated"
    /\ \E d1 \in Draws, d2 \in Draws, d3 \in GateDraws, fault \in GateFaults :
         /\ last' = [NoLast EXCEPT
                       !.sender = TestUser,
                       !.kind = "gated",
                       !.fault = fault,
                       !.obs = [message |-> env.message,
                                probability |->
                                    CalculateReplyProbability(TestUser, env.message, fault),
                                draw |-> d3,
                                accepted |->
                                    ShouldAutoReply(TestUser, env.message, d1, d2, d3,
                                                    fault)]]
    /\ UNCHANGED <<now, enabled_users, response_timing, message_history, avg_interval,
                   task, database_available, user_total, style, learner, env, lastSend,
                   lastAutoSend, ownerSeen>>

\* auto-reply is enabled for the sender of one message
InitGating ==
    /\ now = 0
    /\ enabled_users = {TestUser}
    /\ response_timing = [u \in Users |-> <<>>]
    /\ message_history = [u \in Users |-> <<>>]
    /\ avg_interval = [u \in Users |-> [known |-> FALSE, num |-> 0, den |-> 1]]
    /\ task = [t \in Tasks |-> IdleTask]
    /\ database_available = TRUE
    /\ user_total = [u \in Users |-> 0]
    /\ style = FreshStyle
    /\ learner = FreshLearner
    /\ last = NoLast
    /\ lastSend = NoSend
    /\ lastAutoSend = [u \in Users |-> -1]
    /\ ownerSeen = 0
    /\ \E m \in GatingMessages, context \in Contexts :
         env = [mode |-> "gating", senders |-> {TestUser}, msgs |-> 0, faults |-> 0, drops |-> 0,
                horizon |-> 0, context |-> context, message |-> m]

SpecGating == InitGating /\ [][Gate]_vars

\* ------------------------------------------------------------- reply delay
\* AUTO_REPLY_DELAY_MIN and AUTO_REPLY_DELAY_MAX as the environment may set them
DelayWindows ==
    {[min_delay |-> lo, max_delay |-> hi] :
        lo \in {0, 1, DELAY_MIN, 20}, hi \in {3, DELAY_MAX, 40, 60}}

\* the average intervals _update_user_patterns may have left, in seconds
AvgIntervals ==
    {[known |-> FALSE, num |-> 0, den |-> 1]} \cup
    {[known |-> TRUE, num |-> Sec(n), den |-> 1] :
        n \in {FAST_INTERVAL - 1, FAST_INTERVAL, SLOW_INTERVAL, SLOW_INTERVAL + 1}}

\* random.uniform(min_delay, max_delay): the ends and the middle of the window
UniformDraws(window) ==
    {Sec(window.min_delay), Sec(window.max_delay),
     (Sec(window.min_delay) + Sec(window.max_delay)) \div 2}

\* get_auto_reply_delay is asked for the delay of one reply
Delay ==
    /\ env.mode = "delay"
    /\ last.kind # "delayed"
    /\ \E base \in UniformDraws(env.window), redraw \in UniformDraws(env.window),
          fault \in {"none", "delay"} :
         /\ fault = "none" => redraw = base
         /\ last' = [NoLast EXCEPT
                       !.sender = TestUser,
                       !.kind = "delayed",
                       !.fault = fault,
                       !.obs = [window |-> env.window,
                                delay |-> GetAutoReplyDelay(base, redraw,
                                                            avg_interval[TestUser], fault)]]
    /\ UNCHANGED <<now, enabled_users, response_timing, message_history, avg_interval,
                   task, database_available, user_total, style, learner, env, lastSend,
                   lastAutoSend, ownerSeen>>

\* a configured delay window and an enabled user with a learned interval
InitDelay ==
    /\ now = 0
    /\ enabled_users = {TestUser}
    /\ response_timing = [u \in Users |-> <<>>]
    /\ message_history = [u \in Users |-> <<>>]
    /\ \E avg \in AvgIntervals :
         avg_interval = [u \in Users |-> IF u = TestUser THEN avg
                                         ELSE [known |-> FALSE, num |-> 0, den |-> 1]]
    /\ task = [t \in Tasks |-> IdleTask]
    /\ database_available = TRUE
    /\ user_total = [u \in Users |-> 0]
    /\ style = FreshStyle
    /\ learner = FreshLearner
    /\ last = NoLast
    /\ lastSend = NoSend
    /\ lastAutoSend = [u \in Users |-> -1]
    /\ ownerSeen = 0
    /\ \E window \in DelayWindows :
         env = [mode |-> "delay", senders |-> {TestUser}, msgs |-> 0, faults |-> 0, drops |-> 0,
                horizon |-> 0, context |-> UserContext, window |-> window]

SpecDelay == InitDelay /\ [][Delay]_vars

Next ==
    \/ LoopMessage
    \/ TestMessage
    \/ \E t \in Tasks : Fire(t)
    \/ Advance

Spec == Init /\ [][Next]_vars

\* --------------------------------------------------------- one busy user
\* the texts of a user who keeps writing, and who may switch auto-reply off
BusyFeed == { <<"are", " ", "you", " ", "there", "?">>, <<"!", "autoreply", " ", "off">> }

\* auto-reply is enabled for the test user, who then sends a run of messages
InitBusy ==
    /\ now = 0
    /\ enabled_users = {TestUser}
    /\ response_timing = [u \in Users |-> <<>>]
    /\ message_history = [u \in Users |-> <<>>]
    /\ avg_interval = [u \in Users |-> [known |-> FALSE, num |-> 0, den |-> 1]]
    /\ task = [t \in Tasks |-> IF t = "test" THEN [IdleTask EXCEPT !.pc = "wait",
                                                                  !.fireAt = Sec(TEST_MESSAGE_DELAY)]
                               ELSE IdleTask]
    /\ database_available = FALSE
    /\ user_total = [u \in Users |-> 0]
    /\ style = FreshStyle
    /\ learner = FreshLearner
    /\ last = NoLast
    /\ lastSend = NoSend
    /\ lastAutoSend = [u \in Users |-> -1]
    /\ ownerSeen = 0
    /\ env = [mode |-> "client", senders |-> {TestUser}, msgs |-> MaxBusyMsgs,
              faults |-> MaxFaults, drops |-> 0, horizon |-> Sec(MaxBusyTime),
              context |-> UserContext, feed |-> BusyFeed]

SpecBusy == InitBusy /\ [][Next]_vars

\* ----------------------------------------------------- a failing transport
\* the same user, with a bridge that may fail to write the outgoing message
InitSend ==
    /\ now = 0
    /\ enabled_users = {TestUser}
    /\ response_timing = [u \in Users |-> <<>>]
    /\ message_history = [u \in Users |-> <<>>]
    /\ avg_interval = [u \in Users |-> [known |-> FALSE, num |-> 0, den |-> 1]]
    /\ task = [t \in Tasks |-> IF t = "test" THEN [IdleTask EXCEPT !.pc = "wait",
                                                                  !.fireAt = Sec(TEST_MESSAGE_DELAY)]
                               ELSE IdleTask]
    /\ database_available = FALSE
    /\ user_total = [u \in Users |-> 0]
    /\ style = FreshStyle
    /\ learner = FreshLearner
    /\ last = NoLast
    /\ lastSend = NoSend
    /\ lastAutoSend = [u \in Users |-> -1]
    /\ ownerSeen = 0
    /\ env = [mode |-> "client", senders |-> {TestUser}, msgs |-> MaxSendMsgs,
              faults |-> 0, drops |-> MaxDrops, horizon |-> Sec(MaxTime),
              context |-> UserContext, feed |-> BusyFeed]

SpecSend == InitSend /\ [][Next]_vars

\* ------------------------------------------------------ the message type
\* AutoReplyManager._analyze_message: type, sentiment and emotional tone
AnalyzeMessage(m) ==
    LET positive == Cardinality({w \in {"good", "great", "awesome", "amazing", "love",
                                        "happy", "excited"} : HasText(m, {w})})
        negative == Cardinality({w \in {"bad", "terrible", "sad", "frustrated",
                                        "angry", "disappointed"} : HasText(m, {w})})
    IN [type |->
            IF Contains(m, "?") THEN "question"
            ELSE IF HasText(m, {"hello", "hi", "hey"}) THEN "greeting"
            ELSE IF HasText(m, {"thanks", "appreciate", "grateful"}) THEN "gratitude"
            ELSE IF HasText(m, {"help", "problem", "issue", "trouble"})
                 THEN "help_request"
            ELSE "statement",
        sentiment |->
            IF positive > negative THEN "positive"
            ELSE IF negative > positive THEN "negative"
            ELSE "neutral",
        emotional_tone |->
            IF HasText(m, {"!", "wow", "omg", "amazing", "incredible"}) THEN "excited"
            ELSE IF HasText(m, {"sad", "disappointed", "upset"}) THEN "sad"
            ELSE IF HasText(m, {"frustrated", "angry", "annoyed"}) THEN "frustrated"
            ELSE "neutral"]

\* ChatStyleAnalyzer._analyze_incoming_message: the type of the analysis
AnalyzeIncomingMessage(m) ==
    IF HasText(m, {"hello", "hi", "hey"}) THEN "greeting"
    ELSE IF Contains(m, "?") THEN "question"
    ELSE IF HasText(m, {"help", "problem", "issue", "trouble", "sad", "worried"})
         THEN "supportive_needed"
    ELSE IF HasText(m, {"thanks", "appreciate"}) THEN "appreciation"
    ELSE "general"

\* texts of one to three tokens that match none, one or several of the rules
ClassifyTexts ==
    LET words == {"hello", "?", "help", "thanks", "sad", "great"}
    IN UNION {[1..n -> words] : n \in 1..MaxClassifyTokens}

\* the two classifiers are given the text of the run
Classify ==
    /\ env.mode = "classify"
    /\ last.kind # "classified"
    /\ last' = [NoLast EXCEPT
                  !.sender = TestUser,
                  !.kind = "classified",
                  !.obs = [message |-> env.message,
                           reply |-> AnalyzeMessage(env.message),
                           suggestion |-> AnalyzeIncomingMessage(env.message)]]
    /\ UNCHANGED <<now, enabled_users, response_timing, message_history, avg_interval,
                   task, database_available, user_total, style, learner, env, lastSend,
                   lastAutoSend, ownerSeen>>

\* one incoming text, about to be classified
InitClassify ==
    /\ Constructed
    /\ database_available = TRUE
    /\ \E m \in ClassifyTexts :
         env = [mode |-> "classify", senders |-> {TestUser}, msgs |-> 0, faults |-> 0,
                drops |-> 0, horizon |-> 0, context |-> UserContext, message |-> m]

SpecClassify == InitClassify /\ [][Classify]_vars


\* ------------------------------------------------------------------ claims
\* C1: for each target user at most one accepted autonomous reply is waiting out
\* its delay at any instant, whichever handler task accepted it.
C1_AtMostOnePending ==
    \A u \in Users : Cardinality({t \in Tasks : Pending(t) /\ task[t].sender = u}) <= 1

\* C2: an autonomous reply whose target disabled auto-reply while the reply was
\* waiting out its delay is never sent.
C2_CancelledNeverSent == lastSend.to # NoUser => ~lastSend.cancelled

\* C3: an autonomous reply that was still waiting when a later message of the same
\* user was accepted is never sent; only the later reply is delivered.
C3_SupersededNeverSent == lastSend.to # NoUser => ~lastSend.superseded

\* C4: after an autonomous reply has been sent to a target, no further autonomous
\* reply to that target is accepted until the cooldown window since that send
\* has elapsed.
C4_Cooldown ==
    last.gate = "accepted" =>
        last.sinceSend = -1 \/ last.sinceSend >= Sec(TIMING_WINDOW)

\* C5: no autonomous reply is sent to a user for whom auto-reply is not enabled.
C5_DisabledInert == lastSend.to # NoUser => lastSend.enabled

\* C6: a message during whose gating or reply synthesis an exception was raised
\* gets no autonomous reply.
C6_FailClosed == lastSend.to # NoUser => ~lastSend.faulted

\* C7: a message of an enabled user whose text starts with a reserved prefix is
\* rejected by the gating whatever the random draws are, and no autonomous reply
\* waits or is generated for it.
C7_CommandsNeverTrigger ==
    /\ last.reserved => last.gate \notin {"accepted", "no_reply"}
    /\ \A t \in Tasks :
         Pending(t) => ~StartsWithAny(Strip(task[t].msg), RESERVED_PREFIXES)

\* a text with a reserved prefix that is no bot command went through the gating
\* for an enabled user
C7_Witness ==
    /\ last.kind = "text"
    /\ last.reserved
    /\ last.wasEnabled
    /\ last.gate = "rejected"

\* C8: with the database available and no exception raised, the owning user's
\* message counter equals the number of the owning user's messages processed.
C8_ExactlyOnce ==
    (database_available /\ env.faults = MaxFaults) => style.total_messages = ownerSeen

\* C9: no profile update, failed ones included, lowers a messages-analysed counter.
C9_Monotonic ==
    [][/\ learner'.profile.total_messages_analyzed
              >= learner.profile.total_messages_analyzed
       /\ learner'.stored.total_messages_analyzed
              >= learner.stored.total_messages_analyzed
       /\ style'.total_messages >= style.total_messages
       /\ style'.total_interactions_analyzed >= style.total_interactions_analyzed]_vars

\* an update hit an exception after earlier updates had counted messages
C9_Witness ==
    /\ last.kind = "learned"
    /\ last.fault = "update"
    /\ learner.profile.total_messages_analyzed > 0
    /\ learner.interaction_count > learner.profile.total_messages_analyzed

\* C10 as stated: in every profile state, the fresh one included, the confidence is
\* the step function of the messages analysed.
C10_StepEverywhere ==
    /\ learner.profile.confidence_score
           = StepConfidence(learner.profile.total_messages_analyzed)
    /\ style.confidence_score = StepConfidence(style.total_messages)

\* C10 amended: the learner's confidence is 0.0 before any message is analysed and
\* the step function of the count afterwards; the style row's confidence is
\* min(count / 100, 1.0); both functions never decrease as the count grows.
C10_ConfidenceOfCount ==
    /\ IF learner.profile.total_messages_analyzed = 0
       THEN /\ learner.profile.confidence_score = 0
            /\ learner.profile.pattern_reliability = "initializing"
       ELSE learner.profile.confidence_score
                = StepConfidence(learner.profile.total_messages_analyzed)
    /\ style.confidence_score = StyleConfidence(style.total_messages)
    /\ \A n \in 0..MaxAnalyzed :
         /\ StepConfidence(n) <= StepConfidence(n + 1)
         /\ StyleConfidence(n) <= StyleConfidence(n + 1)
         /\ 0 <= StepConfidence(n)

\* the learner has analysed enough messages to reach the top step
C10_Witness ==
    /\ learner.profile.total_messages_analyzed = HIGH_BELOW
    /\ learner.profile.confidence_score = TOP_CONFIDENCE

\* C11 as stated: sixty short emoji-free messages, every one of them counted,
\* leave the confidence at 0.5.
C11_ScenarioA_Medium ==
    (ownerSeen = 60 /\ learner.profile.total_messages_analyzed = 60)
        => learner.profile.confidence_score = MEDIUM_CONFIDENCE

\* C11 amended: sixty short emoji-free messages, every one of them counted, leave
\* the confidence at 0.8 and the reliability "high" (50 <= 60 < 200); fewer are
\* counted when some are shorter than three characters or an update raises.
C11_ScenarioA_High ==
    /\ learner.profile.total_messages_analyzed <= ownerSeen
    /\ (ownerSeen = 60 /\ learner.profile.total_messages_analyzed = 60)
         => /\ learner.profile.confidence_score = HIGH_CONFIDENCE
            /\ learner.profile.pattern_reliability = "high"

\* sixty short messages were sent and all sixty were counted
C11_Witness ==
    /\ ownerSeen = 60
    /\ learner.profile.total_messages_analyzed = 60
    /\ learner.interaction_count = 60

\* a step in which update_profile_with_patterns ran to its end
Updated == last'.kind = "learned" /\ last'.fault \in {"none", "save"}

Dist(a, b) == IF a >= b THEN a - b ELSE b - a

\* C13: in one update a smoothed weight moves from its old value towards the
\* observation and no further: |new - old| <= |observed - old|.
C13_NoOvershoot ==
    [][Updated =>
         /\ \A k \in PHRASE_KEYS :
              last'.obs.common_phrases[k] > 0 =>
                  Dist(learner'.comm.common_phrases[k],
                       WeightOf(learner.comm.common_phrases, k))
                    <= Dist(last'.obs.common_phrases[k] * UNIT,
                            WeightOf(learner.comm.common_phrases, k))
         /\ \A k \in EMOJI_KEYS :
              last'.obs.emoji_usage[k] > 0 =>
                  Dist(learner'.comm.emoji_usage[k],
                       WeightOf(learner.comm.emoji_usage, k))
                    <= Dist(last'.obs.emoji_usage[k] * UNIT,
                            WeightOf(learner.comm.emoji_usage, k))
         /\ Dist(learner'.comm.caps_usage_frequency, learner.comm.caps_usage_frequency)
              <= Dist(last'.obs.caps_ratio, learner.comm.caps_usage_frequency)]_vars

\* the phrase "wow" was observed in two updates: 0 -> 0.4 -> 0.72
C13_Witness ==
    /\ last.kind = "learned"
    /\ last.fault = "none"
    /\ last.obs.common_phrases["wow"] = 2
    /\ learner.comm.common_phrases["wow"] = (72 * UNIT) \div 100

\* C14: the greeting, question, supportive and humor templates never hold more
\* than 10 texts and the conversation starters never more than 20.
C14_BoundedLists ==
    /\ Len(style.greeting_templates) <= TEMPLATE_CAP
    /\ Len(style.question_response_templates) <= TEMPLATE_CAP
    /\ Len(style.supportive_response_templates) <= TEMPLATE_CAP
    /\ Len(style.humor_templates) <= TEMPLATE_CAP
    /\ Len(style.conversation_starters) <= STARTER_CAP

\* a twenty-first greeting was analysed with both of its lists full
C14_Witness ==
    /\ Len(style.greeting_templates) = TEMPLATE_CAP
    /\ Len(style.conversation_starters) = STARTER_CAP
    /\ style.total_messages > STARTER_CAP
    /\ last.kind = "analyzed"
    /\ last.fault = "none"

\* the emojis of a text, in order
EmojisOf(m) == SelectSeq(m, LAMBDA tok : tok \in EMOJIS)

\* C15: every text generate_auto_reply returns is non-empty.
C15_NeverEmpty ==
    (last.kind = "styled" /\ last.obs.returned) => last.obs.reply # <<>>

\* C16: for a user whose emoji usage is classified low, the emojis of the text
\* that is sent are the first emojis of the draft: none is appended.
C16_LowNeverAppends ==
    (last.kind = "styled" /\ last.obs.sent /\ last.obs.user_style.emoji_usage = "low")
        => /\ Len(EmojisOf(last.obs.delivered)) <= Len(EmojisOf(last.obs.draft))
           /\ EmojisOf(last.obs.delivered)
                  = SubSeq(EmojisOf(last.obs.draft), 1, Len(EmojisOf(last.obs.delivered)))

\* a draft with an emoji and a word the emoji rules look for was sent bare
C16_Witness ==
    /\ last.kind = "styled"
    /\ last.fault = "none"
    /\ last.obs.sent
    /\ last.obs.user_style.emoji_usage = "low"
    /\ Contains(last.obs.draft, "great")
    /\ EmojiCount(last.obs.draft) > 0
    /\ EmojiCount(last.obs.delivered) = 0

\* C17: the probability the policy returns is at most the ceiling, which is
\* below 1.0, on the error path too, and a message is accepted only when the
\* draw is strictly below the probability.
C17_NeverCertain ==
    last.kind = "gated"
        => /\ last.obs.probability <= PROBABILITY_CEILING
           /\ PROBABILITY_CEILING < 100
           /\ last.obs.accepted => last.obs.draw < last.obs.probability

\* a message whose boosts add up to more than the ceiling was accepted on a
\* draw just below the ceiling
C17_Witness ==
    /\ last.kind = "gated"
    /\ last.fault = "none"
    /\ last.obs.message = SadLongQuestion
    /\ last.obs.probability = PROBABILITY_CEILING
    /\ last.obs.draw = PROBABILITY_CEILING - 1
    /\ last.obs.accepted

\* C18: a message with a question mark and more than 10 words, in a context
\* that reports no recent messages, gets a probability above the base rate.
C18_ScenarioB ==
    (/\ last.kind = "gated"
     /\ env.context # NoneContext
     /\ RecentMessageCount(TestUser) = 0
     /\ Contains(last.obs.message, "?")
     /\ WordCount(last.obs.message) > LONG_MESSAGE_WORDS)
        => last.obs.probability > BASE_PROBABILITY

\* the fifteen-word question was given its probability
C18_Witness ==
    /\ last.kind = "gated"
    /\ env.context = UserContext
    /\ last.obs.message = LongQuestion
    /\ WordCount(LongQuestion) = 15
    /\ last.obs.probability = PROBABILITY_CEILING

\* C19: whatever the window and the learned interval, the delay
\* get_auto_reply_delay returns lies between 2 and 30 seconds.
C19_DelayWithinBounds ==
    last.kind = "delayed"
        => /\ last.obs.delay >= Sec(DELAY_FLOOR)
           /\ last.obs.delay <= Sec(DELAY_CEIL)

\* C20: every step other than the handling of a message of the owning user,
\* so the handling of any other sender's message, leaves the owning user's
\* style profile as it was.
C20_OnlyOwnerFeeds ==
    [][last'.sender # Owner => style' = style]_vars

\* a message of another sender was stored after the owning user had fed the
\* profile
C20_Witness ==
    /\ last.sender = TestUser
    /\ last.kind = "text"
    /\ database_available
    /\ user_total[TestUser] > 0
    /\ style.exists
    /\ style.total_messages > 0

\* C21: the messages delivered to a sender for one incoming message, the answer
\* and the autonomous reply together, are at most one.
C21_NoDoubleSend == lastSend.to # NoUser => lastSend.replies <= 1

\* C22: the latest time recorded for a user's recent-response count is the time
\* of the latest autonomous send to that user; a reply that waits or that was
\* not sent has recorded none.
C22_RecordedAtSend ==
    \A u \in Users :
        response_timing[u] # <<>> =>
            response_timing[u][Len(response_timing[u])] = lastAutoSend[u]

\* C23: while an accepted reply waits out its delay and the feed holds further
\* messages, the inbound loop is free to handle the next one.
C23_LoopStaysFree ==
    ((\E t \in Tasks : Pending(t)) /\ env.msgs > 0) => task["loop"].pc = "idle"

\* C25: a send that fails ends the entry: the handler has returned, nothing
\* waits to be sent again for it, and the time recorded at its acceptance still
\* counts among the user's recent responses.
C25_FailedSendNotRetried ==
    [][env'.drops < env.drops
          => LET t == lastSend'.task
             IN /\ ~lastSend'.delivered
                /\ task'[t] = Returned(t)
                /\ response_timing' = response_timing
                /\ \E i \in 1..Len(response_timing'[task[t].sender]) :
                       response_timing'[task[t].sender][i] = task[t].acceptedAt
                /\ lastAutoSend' = lastAutoSend]_vars

\* the send of an accepted reply has failed
C25_Witness ==
    /\ lastSend.to # NoUser
    /\ ~lastSend.delivered
    /\ ~Pending(lastSend.task)
    /\ RecentResponses(lastSend.to) > 0

\* the times recorded for u in the 300 seconds that start with the i-th of them
RecordedFrom(u, i) ==
    Cardinality({j \in 1..Len(response_timing[u]) :
                    /\ response_timing[u][j] >= response_timing[u][i]
                    /\ response_timing[u][j] - response_timing[u][i] < Sec(TIMING_WINDOW)})

\* C24: no message is accepted for a user with more than 3 replies recorded in
\* the last 300 seconds, and no 300 seconds hold more than 4 recorded replies of
\* one user.
C24_StormCap ==
    /\ last.gate = "accepted" => last.recent <= TIMING_CAP
    /\ \A u \in Users : \A i \in 1..Len(response_timing[u]) :
           RecordedFrom(u, i) <= TIMING_CAP + 1

\* one update of an exemplar list: nothing, or a text it did not hold put at the
\* end while it was below its cap
ListStep(old, new, cap) ==
    \/ new = old
    \/ /\ Len(old) < cap
       /\ Len(new) = Len(old) + 1
       /\ SubSeq(new, 1, Len(old)) = old
       /\ \A i \in 1..Len(old) : old[i] # new[Len(new)]

\* C26: an update of an exemplar list appends the message at the end when the
\* list does not hold it and is below its cap, and otherwise leaves the list as it
\* was: no text is removed, moved or repeated, and a full list never changes.
C26_InsertIfNovel ==
    [][/\ ListStep(style.greeting_templates, style'.greeting_templates, TEMPLATE_CAP)
       /\ ListStep(style.question_response_templates,
                   style'.question_response_templates, TEMPLATE_CAP)
       /\ ListStep(style.supportive_response_templates,
                   style'.supportive_response_templates, TEMPLATE_CAP)
       /\ ListStep(style.humor_templates, style'.humor_templates, TEMPLATE_CAP)
       /\ ListStep(style.conversation_starters, style'.conversation_starters,
                   STARTER_CAP)]_vars

\* the question templates are full and some analysed text was not kept
C26_Witness ==
    /\ Len(style.question_response_templates) = TEMPLATE_CAP
    /\ style.total_messages > Len(style.conversation_starters)
                               + Len(style.question_response_templates)
                               + Len(style.supportive_response_templates)
    /\ last.kind = "analyzed"
    /\ last.fault = "none"

\* the keys of a weight map that hold a weight
Held(map) == {k \in DOMAIN map : map[k] # NoWeight}

\* C27: an update leaves the weight of every phrase and every emoji of the
\* profile that the message does not hold as it was, and takes no key out of
\* either map.
C27_AbsentUntouched ==
    [][/\ Held(learner.comm.common_phrases) \subseteq Held(learner'.comm.common_phrases)
       /\ Held(learner.comm.emoji_usage) \subseteq Held(learner'.comm.emoji_usage)
       /\ \A k \in Held(learner.comm.common_phrases) :
              last'.obs.common_phrases[k] = 0 =>
                  learner'.comm.common_phrases[k] = learner.comm.common_phrases[k]
       /\ \A k \in Held(learner.comm.emoji_usage) :
              last'.obs.emoji_usage[k] = 0 =>
                  learner'.comm.emoji_usage[k] = learner.comm.emoji_usage[k]]_vars

\* a message with a phrase was learned by a profile that holds an emoji and
\* another phrase the message does not have
C27_Witness ==
    /\ last.kind = "learned"
    /\ last.fault = "none"
    /\ \E k \in PHRASE_KEYS : last.obs.common_phrases[k] > 0
    /\ \E k \in Held(learner.comm.common_phrases) : last.obs.common_phrases[k] = 0
    /\ \E k \in Held(learner.comm.emoji_usage) : last.obs.emoji_usage[k] = 0

FirstMatch(m, greetings, helps, thanks) ==
    IF HasText(m, greetings) THEN "greeting"
    ELSE IF Contains(m, "?") THEN "question"
    ELSE IF HasText(m, helps) THEN "help-request"
    ELSE IF HasText(m, thanks) THEN "gratitude"
    ELSE "statement"

\* the names the two classifiers give the five types
TypeName(type) ==
    CASE type \in {"help_request", "supportive_needed"} -> "help-request"
      [] type = "appreciation" -> "gratitude"
      [] type = "general" -> "statement"
      [] OTHER -> type

\* C29: both classifiers give a text the type of the first rule it matches in
\* the order greeting, question, help-request, gratitude, statement.
C29_FirstMatchOrder ==
    last.kind = "classified" =>
        /\ TypeName(last.obs.reply.type)
               = FirstMatch(last.obs.message, {"hello", "hi", "hey"},
                            {"help", "problem", "issue", "trouble"},
                            {"thanks", "appreciate", "grateful"})
        /\ TypeName(last.obs.suggestion)
               = FirstMatch(last.obs.message, {"hello", "hi", "hey"},
                            {"help", "problem", "issue", "trouble", "sad", "worried"},
                            {"thanks", "appreciate"})

\* C30: a learned message is followed by a save, which empties the buffer, only
\* when the interaction count is a multiple of the save threshold, when the
\* confidence has just moved into another band, or when the buffer holds more
\* than 50 entries.
C30_SavePolicy ==
    [][(/\ learner'.interaction_count = learner.interaction_count + 1
        /\ learner'.buffer = 0)
          => \/ learner'.interaction_count % SAVE_THRESHOLD = 0
             \/ learner'.profile.confidence_score # learner.profile.confidence_score
             \/ learner.buffer + 1 > BUFFER_LIMIT]_vars

====
